---- MODULE Spec2Model ----
(***************************************************************************)
(* Model of Lab_1/Lab1.py: a command-line inspector of one .mp3/.wav file. *)
(* main() checks that the path is a file, classifies its extension, asks   *)
(* pydub for the duration, asks mutagen for the tags and prints the        *)
(* result; the exit code tells which stage ended the run.                  *)
(*                                                                         *)
(* Python strings are sequences of one-character strings, so that          *)
(* splitext, lower, lstrip, join, str and sorted are computed character by *)
(* character.  pydub, mutagen and the file system are the environment:     *)
(* what they return or raise is chosen nondeterministically.               *)
(***************************************************************************)
EXTENDS Integers, Sequences, FiniteSets, TLC

VARIABLES
    path,          \* args.path
    isFile,        \* os.path.isfile(path): the state of the disk
    AudioSegment,  \* TRUE iff the pydub import succeeded (not None)
    MutagenFile,   \* TRUE iff the mutagen import succeeded (not None)
    pc,            \* position of main()
    out,           \* lines printed so far
    exitCode,      \* value returned by main(); Running until it returns
    calls,         \* collaborators invoked so far, in order
    supported,     \* last value returned by is_supported_media
    decoded,       \* what AudioSegment.from_file did in this run
    easyView,      \* what MutagenFile(path, easy=True) gave in this run
    rawView,       \* what MutagenFile(path) gave in this run
    md             \* outcome of get_metadata

vars == <<path, isFile, AudioSegment, MutagenFile, pc, out, exitCode, calls,
          supported, decoded, easyView, rawView, md>>

----------------------------------------------------------------------------
(* Bounds *)

\* pieces concatenated into a path of the classifier specification
MaxPathPieces == 4
\* pieces concatenated into the path given to main
MaxMainPieces == 3
\* tag items a view of the tag source holds at most
MaxTags == 2

----------------------------------------------------------------------------
(* Python strings *)

\* the characters of the model, by code point
Digits == <<"0", "1", "2", "3", "4", "5", "6", "7", "8", "9">>

Uppers ==
    <<"A", "B", "C", "D", "E", "F", "G", "H", "I", "J", "K", "L", "M", "N",
      "O", "P", "Q", "R", "S", "T", "U", "V", "W", "X", "Y", "Z">>

Lowers ==
    <<"a", "b", "c", "d", "e", "f", "g", "h", "i", "j", "k", "l", "m", "n",
      "o", "p", "q", "r", "s", "t", "u", "v", "w", "x", "y", "z">>

IndexOf(table, c) == CHOOSE i \in 1..Len(table) : table[i] = c

InTable(table, c) == \E i \in 1..Len(table) : table[i] = c

\* ord(c)
Ord(c) ==
    IF InTable(Digits, c) THEN 47 + IndexOf(Digits, c)
    ELSE IF InTable(Uppers, c) THEN 64 + IndexOf(Uppers, c)
    ELSE IF InTable(Lowers, c) THEN 96 + IndexOf(Lowers, c)
    ELSE CASE c = " " -> 32
           [] c = "'" -> 39
           [] c = "," -> 44
           [] c = "-" -> 45
           [] c = "." -> 46
           [] c = "/" -> 47
           [] c = ":" -> 58
           [] c = "[" -> 91
           [] c = "]" -> 93

\* c.lower(): A-Z go to a-z, every other character stays
LowerChar(c) == IF InTable(Uppers, c) THEN Lowers[IndexOf(Uppers, c)] ELSE c

\* s.lower()
Lower(s) == [i \in 1..Len(s) |-> LowerChar(s[i])]

\* s.rfind(c), 1-based; 0 when c does not occur
RFind(s, c) ==
    LET hits == {i \in 1..Len(s) : s[i] = c}
    IN  IF hits = {} THEN 0 ELSE CHOOSE i \in hits : \A j \in hits : j <= i

\* s.lstrip(c)
RECURSIVE LStrip(_, _)
LStrip(s, c) == IF s # <<>> /\ Head(s) = c THEN LStrip(Tail(s), c) ELSE s

\* str < str in Python: by code point, a proper prefix first
RECURSIVE StrLess(_, _)
StrLess(a, b) ==
    IF b = <<>> THEN FALSE
    ELSE IF a = <<>> THEN TRUE
    ELSE IF Head(a) # Head(b) THEN Ord(Head(a)) < Ord(Head(b))
    ELSE StrLess(Tail(a), Tail(b))

\* sep.join(parts)
RECURSIVE Join(_, _)
Join(sep, parts) ==
    IF parts = <<>> THEN <<>>
    ELSE IF Len(parts) = 1 THEN parts[1]
    ELSE parts[1] \o sep \o Join(sep, Tail(parts))

CommaSpace == <<",", " ">>

----------------------------------------------------------------------------
(* Extension classifier *)

\* os.path.splitext(p) on POSIX (sep "/", extsep "."): <<root, ext>>.  The
\* extension starts at the last dot of the last component, unless only dots
\* precede it there.
splitext(p) ==
    LET sepIndex == RFind(p, "/")
        dotIndex == RFind(p, ".")
    IN  IF /\ dotIndex > sepIndex
           /\ \E i \in (sepIndex + 1)..(dotIndex - 1) : p[i] # "."
        THEN <<SubSeq(p, 1, dotIndex - 1), SubSeq(p, dotIndex, Len(p))>>
        ELSE <<p, <<>>>>

SUPPORTED_EXTS == {<<"m", "p", "3">>, <<"w", "a", "v">>}

\* os.path.splitext(path)[1].lower().lstrip(".")
NormalizedExt(p) == LStrip(Lower(splitext(p)[2]), ".")

\* a classifier that forgets .lower()
is_supported_media_CaseSensitive(p) ==
    LStrip(splitext(p)[2], ".") \in SUPPORTED_EXTS

is_supported_media(p) == NormalizedExt(p) \in SUPPORTED_EXTS

----------------------------------------------------------------------------
(* Printed lines and return values *)

\* one print() of main: t names the fixed wording, text is the interpolated
\* string, err the interpolated exception message
Line(t, text, err) == [t |-> t, text |-> text, err |-> err]

\* main has not returned / main returned n
NoExit == <<>>

Exit(n) == <<n>>

\* what a stage of main does: the lines it prints and the value it returns
\* (NoExit when main goes on to the stage `next`)
Outcome(print, ret, next) == [print |-> print, ret |-> ret, next |-> next]

----------------------------------------------------------------------------
(* Duration resolver *)

\* len(audio), in milliseconds, of the files that decode
DurationsMs == {0, 3005}

\* what AudioSegment.from_file does: returns the audio, raises
\* CouldntDecodeError, or raises any other exception (subprocess and file
\* errors of the decoder are not CouldntDecodeError)
DecoderOutcomes ==
    {[kind |-> "audio", ms |-> m] : m \in DurationsMs}
        \cup {[kind |-> "CouldntDecodeError", ms |-> 0],
              [kind |-> "OtherException", ms |-> 0]}

NotDecoded == [kind |-> "not_invoked", ms |-> 0]

\* get_duration_seconds: raised/err is the exception that leaves it, ms the
\* length returned (len(audio) / 1000.0, kept in milliseconds), invoked
\* whether AudioSegment.from_file was called
get_duration_seconds(available, dec) ==
    IF ~available
    THEN [raised |-> TRUE, err |-> "pydub_missing", ms |-> 0, invoked |-> FALSE]
    ELSE IF dec.kind = "CouldntDecodeError"
    THEN [raised |-> TRUE, err |-> "ffmpeg_hint", ms |-> 0, invoked |-> TRUE]
    ELSE IF dec.kind = "OtherException"
    THEN [raised |-> TRUE, err |-> "decoder_message", ms |-> 0, invoked |-> TRUE]
    ELSE [raised |-> FALSE, err |-> "", ms |-> dec.ms, invoked |-> TRUE]

\* str(n) for n >= 0
RECURSIVE DecimalDigits(_)
DecimalDigits(n) ==
    IF n < 10 THEN <<Digits[n + 1]>>
    ELSE DecimalDigits(n \div 10) \o <<Digits[(n % 10) + 1]>>

\* f"{ms / 1000.0:.3f}"
Format3f(ms) ==
    LET frac == ms % 1000
    IN  DecimalDigits(ms \div 1000) \o <<".">>
            \o <<Digits[(frac \div 100) + 1], Digits[((frac \div 10) % 10) + 1],
                 Digits[(frac % 10) + 1]>>

----------------------------------------------------------------------------
(* Tag source *)

TagKeys == {<<"a">>, <<"B">>, <<"a", "b">>}

\* a value under a key of a tag view:
\*   str         a plain string
\*   list        a list/tuple of strings
\*   frame_text  an object whose .text is a list of strings (ID3 TextFrame)
\*   frame       an object without a list-valued .text
\* str is what str(v) gives for the kinds that are not lists
TagValues ==
    {[kind |-> "str", str |-> <<"x">>, items |-> <<>>],
     [kind |-> "list", str |-> <<>>, items |-> <<<<"x">>, <<"y">>>>],
     [kind |-> "frame_text", str |-> <<"f">>, items |-> <<<<"x">>, <<"y">>>>],
     [kind |-> "frame", str |-> <<"f">>, items |-> <<>>]}

HasKey(d, k) == \E i \in 1..Len(d) : d[i].k = k

\* tags.items() of a view: at most n items, no key twice, in any order
RECURSIVE ItemSeqs(_)
ItemSeqs(n) ==
    IF n = 0 THEN {<<>>}
    ELSE LET prev == ItemSeqs(n - 1)
             full == {t \in prev : Len(t) = n - 1}
         IN  prev \cup
             UNION {{Append(s, [k |-> k, v |-> v]) :
                        k \in {x \in TagKeys : ~HasKey(s, x)}, v \in TagValues} :
                    s \in full}

\* what MutagenFile(path, ...) gives: it raises, returns None, or returns a
\* file object whose tags hold the items (broken: tags.items() raises)
Unopened == [kind |-> "unopened", tags |-> <<>>, broken |-> FALSE]

Views ==
    {[kind |-> "raises", tags |-> <<>>, broken |-> FALSE],
     [kind |-> "none", tags |-> <<>>, broken |-> FALSE],
     [kind |-> "file", tags |-> <<>>, broken |-> TRUE]}
        \cup {[kind |-> "file", tags |-> s, broken |-> FALSE] :
                 s \in ItemSeqs(MaxTags)}

\* mf is not None and getattr(mf, "tags", None)
HasTags(view) == view.kind = "file" /\ (view.broken \/ view.tags # <<>>)

----------------------------------------------------------------------------
(* Metadata resolver *)

\* tags_out is a dict, kept as its items in insertion order

\* d[k] = v
DictSet(d, k, v) ==
    IF HasKey(d, k)
    THEN [i \in 1..Len(d) |-> IF d[i].k = k THEN [k |-> k, v |-> v] ELSE d[i]]
    ELSE Append(d, [k |-> k, v |-> v])

\* d[k]
DictGet(d, k) == d[CHOOSE i \in 1..Len(d) : d[i].k = k].v

\* list(d.keys())
DictKeys(d) == [i \in 1..Len(d) |-> d[i].k]

\* str(list) of a list of strings: the repr of each element, in brackets
ListRepr(items) ==
    <<"[">>
        \o Join(CommaSpace, [i \in 1..Len(items) |-> <<"'">> \o items[i] \o <<"'">>])
        \o <<"]">>

\* str(v)
PyStr(v) == IF v.kind = "list" THEN ListRepr(v.items) ELSE v.str

\* the value stored for an item of the simplified view
EasyValue(v) ==
    IF v.kind = "list" THEN Join(CommaSpace, v.items) ELSE PyStr(v)

\* the value stored for an item of the raw view: only a list-valued .text
\* is joined
FullValue(v) ==
    IF v.kind = "frame_text" THEN Join(CommaSpace, v.items) ELSE PyStr(v)

\* for k, v in items: tags_out[k] = EasyValue(v)
RECURSIVE EasyLoop(_, _)
EasyLoop(tags_out, items) ==
    IF items = <<>> THEN tags_out
    ELSE EasyLoop(DictSet(tags_out, items[1].k, EasyValue(items[1].v)),
                  Tail(items))

\* for k, v in items: tags_out[str(k)] = FullValue(v)
RECURSIVE FullLoop(_, _)
FullLoop(tags_out, items) ==
    IF items = <<>> THEN tags_out
    ELSE FullLoop(DictSet(tags_out, items[1].k, FullValue(items[1].v)),
                  Tail(items))

\* the simplified pass: raised when MutagenFile or tags.items() raises
EasyBlock(easy) ==
    IF easy.kind = "raises" \/ (HasTags(easy) /\ easy.broken)
    THEN [raised |-> TRUE, tags_out |-> <<>>]
    ELSE IF HasTags(easy)
    THEN [raised |-> FALSE, tags_out |-> EasyLoop(<<>>, easy.tags)]
    ELSE [raised |-> FALSE, tags_out |-> <<>>]

\* a resolver that opens the raw view whatever the simplified view gave
NeedsFull_Always(tags_out) == TRUE

\* if not tags_out
NeedsFull(tags_out) == tags_out = <<>>

\* a raw pass without the try around tags.items()
FullBlock_NoInnerTry(tags_out, raw) ==
    IF raw.kind = "raises" \/ (HasTags(raw) /\ raw.broken)
    THEN [raised |-> TRUE, tags_out |-> <<>>]
    ELSE IF HasTags(raw)
    THEN [raised |-> FALSE, tags_out |-> FullLoop(tags_out, raw.tags)]
    ELSE [raised |-> FALSE, tags_out |-> tags_out]

\* the raw pass: raised when MutagenFile raises; an exception of
\* tags.items() leaves items = []
FullBlock(tags_out, raw) ==
    IF raw.kind = "raises"
    THEN [raised |-> TRUE, tags_out |-> <<>>]
    ELSE IF HasTags(raw)
    THEN [raised |-> FALSE,
          tags_out |-> FullLoop(tags_out, IF raw.broken THEN <<>> ELSE raw.tags)]
    ELSE [raised |-> FALSE, tags_out |-> tags_out]

\* outcomes of get_metadata
MdNone == [state |-> "none", tags |-> <<>>, err |-> ""]

MdError(msg) == [state |-> "error", tags |-> <<>>, err |-> msg]

MdOk(tags_out) == [state |-> "ok", tags |-> tags_out, err |-> ""]

----------------------------------------------------------------------------
(* Presentation *)

\* insert k before the first key greater than it
RECURSIVE Insert(_, _)
Insert(sortedKeys, k) ==
    IF sortedKeys = <<>> THEN <<k>>
    ELSE IF StrLess(k, Head(sortedKeys)) THEN <<k>> \o sortedKeys
    ELSE <<Head(sortedKeys)>> \o Insert(Tail(sortedKeys), k)

\* a listing in dict order
sorted_Unsorted(keys) == keys

\* sorted(keys)
RECURSIVE sorted(_)
sorted(keys) ==
    IF keys = <<>> THEN <<>>
    ELSE Insert(sorted(SubSeq(keys, 1, Len(keys) - 1)), keys[Len(keys)])

\* f"  - {k}: {v}"
TagText(k, v) == <<" ", " ", "-", " ">> \o k \o <<":", " ">> \o v

----------------------------------------------------------------------------
(* main, stage by stage *)

\* a stage that runs on although the path is no file
ExistsOutcome_NoReturn(p, isfile) == Outcome(<<>>, NoExit, "format")

\* if not os.path.isfile(path): print ...; return 1
ExistsOutcome(p, isfile) ==
    IF ~isfile
    THEN Outcome(<<Line("NotFound", p, "")>>, Exit(1), "done")
    ELSE Outcome(<<>>, NoExit, "format")

\* a stage that lets every extension through
FormatOutcome_NoReturn(p, sup) ==
    Outcome(<<Line("File", p, ""), Line("Format", NormalizedExt(p), "")>>,
            NoExit, "duration")

\* if not is_supported_media(path): print ...; return 2
\* print("File: ..."); print("Format: ...")
FormatOutcome(p, sup) ==
    IF ~sup
    THEN Outcome(<<Line("Unsupported", <<>>, "")>>, Exit(2), "done")
    ELSE Outcome(<<Line("File", p, ""), Line("Format", NormalizedExt(p), "")>>,
                 NoExit, "duration")

\* a stage that reports the failure and goes on to the metadata
DurationOutcome_GoesOn(r) ==
    IF r.raised
    THEN Outcome(<<Line("DurationError", <<>>, r.err)>>, NoExit, "metadata")
    ELSE Outcome(<<Line("Duration", Format3f(r.ms), "")>>, NoExit, "metadata")

\* try: duration = get_duration_seconds(path)
\* except Exception as e: print ...; return 3
\* print("Duration: ...")
DurationOutcome(r) ==
    IF r.raised
    THEN Outcome(<<Line("DurationError", <<>>, r.err)>>, Exit(3), "done")
    ELSE Outcome(<<Line("Duration", Format3f(r.ms), "")>>, NoExit, "metadata")

\* a stage for which a metadata failure is fatal
MetadataOutcome_Fatal(m) ==
    IF m.state = "error"
    THEN Outcome(<<Line("MetadataError", <<>>, m.err)>>, Exit(3), "done")
    ELSE Outcome(<<>>, NoExit, "present")

\* try: md = get_metadata(path)
\* except Exception as e: print ...; return 0
MetadataOutcome(m) ==
    IF m.state = "error"
    THEN Outcome(<<Line("MetadataError", <<>>, m.err)>>, Exit(0), "done")
    ELSE Outcome(<<>>, NoExit, "present")

\* the listing: the header, then one line per key of sorted(md.keys())
Listing(tags) ==
    LET keys == sorted(DictKeys(tags))
    IN  <<Line("MetadataHeader", <<>>, "")>>
            \o [i \in 1..Len(keys) |->
                   Line("Tag", TagText(keys[i], DictGet(tags, keys[i])), "")]

\* if md: header and listing, else: the notice; return 0
PresentOutcome(m) ==
    IF m.tags # <<>>
    THEN Outcome(Listing(m.tags), Exit(0), "done")
    ELSE Outcome(<<Line("NoMetadata", <<>>, "")>>, Exit(0), "done")

\* print the stage's lines, then return or go on
Apply(o) ==
    /\ out' = out \o o.print
    /\ exitCode' = o.ret
    /\ pc' = IF o.ret = NoExit THEN o.next ELSE "done"

\* main, lines 102-105
CheckFile ==
    /\ pc = "exists"
    /\ calls' = Append(calls, "os.path.isfile")
    /\ Apply(ExistsOutcome(path, isFile))
    /\ UNCHANGED <<path, isFile, AudioSegment, MutagenFile, supported, decoded,
                   easyView, rawView, md>>

\* main, lines 107-112
CheckFormat ==
    /\ pc = "format"
    /\ calls' = Append(calls, "is_supported_media")
    /\ supported' = is_supported_media(path)
    /\ Apply(FormatOutcome(path, supported'))
    /\ UNCHANGED <<path, isFile, AudioSegment, MutagenFile, decoded, easyView,
                   rawView, md>>

\* main, lines 114-120
DurationStage ==
    /\ pc = "duration"
    /\ \E dec \in DecoderOutcomes :
          LET r == get_duration_seconds(AudioSegment, dec)
          IN  /\ decoded' = IF r.invoked THEN dec ELSE NotDecoded
              /\ calls' = calls \o <<"get_duration_seconds">>
                     \o (IF r.invoked THEN <<"AudioSegment.from_file">> ELSE <<>>)
              /\ Apply(DurationOutcome(r))
    /\ UNCHANGED <<path, isFile, AudioSegment, MutagenFile, supported, easyView,
                   rawView, md>>

\* get_metadata returned or raised: main, lines 122-126
MetadataDone(easy, raw, m, opened) ==
    /\ easyView' = easy
    /\ rawView' = raw
    /\ md' = m
    /\ calls' = calls \o <<"get_metadata">> \o opened
    /\ Apply(MetadataOutcome(m))

\* main, lines 122-126, with get_metadata
MetadataStage ==
    /\ pc = "metadata"
    /\ IF ~MutagenFile
       THEN MetadataDone(Unopened, Unopened, MdError("mutagen_missing"), <<>>)
       ELSE \E easy \in Views :
               LET e == EasyBlock(easy)
               IN  IF e.raised
                   THEN MetadataDone(easy, Unopened,
                                     MdError("tag_reader_message"),
                                     <<"MutagenFile.easy">>)
                   ELSE IF NeedsFull(e.tags_out)
                   THEN \E raw \in Views :
                           LET f == FullBlock(e.tags_out, raw)
                           IN  MetadataDone(
                                   easy, raw,
                                   IF f.raised
                                   THEN MdError("tag_reader_message")
                                   ELSE MdOk(f.tags_out),
                                   <<"MutagenFile.easy", "MutagenFile.full">>)
                   ELSE MetadataDone(easy, Unopened, MdOk(e.tags_out),
                                     <<"MutagenFile.easy">>)
    /\ UNCHANGED <<path, isFile, AudioSegment, MutagenFile, supported, decoded>>

\* main, lines 128-135
Present ==
    /\ pc = "present"
    /\ Apply(PresentOutcome(md))
    /\ UNCHANGED <<path, isFile, AudioSegment, MutagenFile, calls, supported,
                   decoded, easyView, rawView, md>>

----------------------------------------------------------------------------
(* Specifications *)

\* the concatenations of at most n of the pieces
RECURSIVE PathsOf(_, _)
PathsOf(pieces, n) ==
    IF n = 0 THEN {<<>>}
    ELSE LET prev == PathsOf(pieces, n - 1)
         IN  prev \cup {p \o q : p \in prev, q \in pieces}

MainPieces ==
    {<<"a">>, <<".">>, <<"m", "p", "3">>, <<"W", "a", "v">>, <<"t", "x", "t">>}

MainPaths == PathsOf(MainPieces, MaxMainPieces)

\* a run of main over any path, disk and pair of imports
Init ==
    /\ path \in MainPaths
    /\ isFile \in BOOLEAN
    /\ AudioSegment \in BOOLEAN
    /\ MutagenFile \in BOOLEAN
    /\ pc = "exists"
    /\ out = <<>>
    /\ exitCode = NoExit
    /\ calls = <<>>
    /\ supported = FALSE
    /\ decoded = NotDecoded
    /\ easyView = Unopened
    /\ rawView = Unopened
    /\ md = MdNone

Next ==
    \/ CheckFile
    \/ CheckFormat
    \/ DurationStage
    \/ MetadataStage
    \/ Present

Spec == Init /\ [][Next]_vars

ClassifierPieces ==
    {<<"a">>, <<".">>, <<"/">>, <<"m", "p", "3">>, <<"M", "P", "3">>,
     <<"W", "a", "v">>, <<"t", "x", "t">>, <<"m", "p">>}

ClassifierPaths == PathsOf(ClassifierPieces, MaxPathPieces)

\* is_supported_media applied to any path
InitClassifier ==
    /\ path \in ClassifierPaths
    /\ isFile = FALSE
    /\ AudioSegment = FALSE
    /\ MutagenFile = FALSE
    /\ pc = "classify"
    /\ out = <<>>
    /\ exitCode = NoExit
    /\ calls = <<>>
    /\ supported = FALSE
    /\ decoded = NotDecoded
    /\ easyView = Unopened
    /\ rawView = Unopened
    /\ md = MdNone

Classify ==
    /\ pc = "classify"
    /\ supported' = is_supported_media(path)
    /\ calls' = Append(calls, "is_supported_media")
    /\ pc' = "classified"
    /\ UNCHANGED <<path, isFile, AudioSegment, MutagenFile, out, exitCode,
                   decoded, easyView, rawView, md>>

NextClassifier == Classify

SpecClassifier == InitClassifier /\ [][NextClassifier]_vars

----------------------------------------------------------------------------
(* Properties *)

Done == pc = "done"

Called(c) == \E i \in 1..Len(calls) : calls[i] = c

CountCalls(c) == Cardinality({i \in 1..Len(calls) : calls[i] = c})

Printed(t) == \E i \in 1..Len(out) : out[i].t = t

\* the wording of each printed line, in order
Wording == [i \in 1..Len(out) |-> out[i].t]

LastLine == out[Len(out)]

\* the extension of the path, by the rule of the classifier's contract: the
\* text after a dot that has a character other than a dot before it in the
\* same path component, and nothing but the extension after it
HasExtensionIn(p, exts) ==
    \E i \in 1..Len(p) :
        /\ p[i] = "."
        /\ Lower(SubSeq(p, i + 1, Len(p))) \in exts
        /\ \E j \in 1..(i - 1) :
              /\ p[j] # "."
              /\ \A m \in j..i : p[m] # "/"

\* C1: a path that is no file on disk ends the run with exit code 1 and the
\* file-not-found message, whatever its extension; nothing else is printed
\* and only os.path.isfile was consulted (no classifier, decoder, tag reader).
C1_NotFound ==
    (~isFile /\ pc # "exists") =>
        /\ Done
        /\ exitCode = Exit(1)
        /\ out = <<Line("NotFound", path, "")>>
        /\ calls = <<"os.path.isfile">>
        /\ decoded = NotDecoded /\ easyView = Unopened /\ rawView = Unopened

\* the run over a missing file with a supported extension has ended
C1_Witness ==
    /\ Done /\ ~isFile
    /\ path = <<"a", ".", "W", "a", "v">>

\* C2: an existing file whose extension, lower-cased, is neither mp3 nor wav
\* ends the run with exit code 2, and neither the duration stage, the
\* decoder nor the tag reader is invoked.
C2_Unsupported ==
    (isFile /\ ~HasExtensionIn(path, SUPPORTED_EXTS) /\ pc \notin {"exists", "format"}) =>
        /\ Done
        /\ exitCode = Exit(2)
        /\ calls = <<"os.path.isfile", "is_supported_media">>
        /\ decoded = NotDecoded /\ easyView = Unopened /\ rawView = Unopened

\* the run over an existing a.txt has ended
C2_Witness ==
    /\ Done /\ isFile
    /\ path = <<"a", ".", "t", "x", "t">>
    /\ exitCode = Exit(2)

\* the duration stage ran and get_duration_seconds raised
DurationFailed ==
    /\ Called("get_duration_seconds")
    /\ ~AudioSegment \/ decoded.kind \in {"CouldntDecodeError", "OtherException"}

\* C3: when the duration stage fails (pydub missing, CouldntDecodeError, or
\* any other exception of the decoder) main prints the error detail and
\* returns 3, prints no duration line and never invokes the metadata stage;
\* it returns 3 in no other case.
C3_DurationFailure ==
    /\ DurationFailed =>
          /\ Done
          /\ exitCode = Exit(3)
          /\ Wording = <<"File", "Format", "DurationError">>
          /\ LastLine.err # ""
          /\ ~Called("get_metadata")
          /\ easyView = Unopened /\ rawView = Unopened /\ md = MdNone
    /\ exitCode = Exit(3) => DurationFailed

\* the decoder raised something other than CouldntDecodeError and main returned
C3_Witness ==
    /\ Done
    /\ decoded.kind = "OtherException"
    /\ exitCode = Exit(3)

\* the tag reader raised somewhere in the metadata stage
TagReaderRaised ==
    \/ easyView.kind = "raises"
    \/ easyView.broken
    \/ rawView.kind = "raises"
    \/ rawView.broken

ItemsOf(view) == IF view.kind = "file" /\ ~view.broken THEN view.tags ELSE <<>>

\* the entries of tags_out under key k
EntriesFor(tags, k) == {i \in 1..Len(tags) : tags[i].k = k}

\* every list-valued item of the view is one entry of md, its elements
\* joined by ", ", and one printed line
JoinedIn(view) ==
    \A i \in 1..Len(ItemsOf(view)) :
        LET it == ItemsOf(view)[i]
        IN  it.v.kind = "list" =>
               /\ Cardinality(EntriesFor(md.tags, it.k)) = 1
               /\ DictGet(md.tags, it.k) = Join(CommaSpace, it.v.items)
               /\ Done =>
                     Cardinality({j \in 1..Len(out) :
                         out[j] = Line("Tag", TagText(it.k, Join(CommaSpace, it.v.items)), "")}) = 1

\* C5: every key whose value is a list or tuple, in the simplified view and
\* in the raw fallback view alike, gives exactly one entry of the mapping,
\* the elements joined by ", ", rendered on one line.
C5_MultiValuedJoined ==
    md.state = "ok" => (JoinedIn(easyView) /\ JoinedIn(rawView))


\* the keys of the mapping and the pairs it holds, its order forgotten
KeySet(tags) == {tags[i].k : i \in 1..Len(tags)}

PairSet(tags) == {tags[i] : i \in 1..Len(tags)}

\* the one strictly ascending enumeration of a set of keys
Ascending(keys) ==
    CHOOSE ks \in [1..Cardinality(keys) -> keys] :
        \A i, j \in 1..Cardinality(keys) : i < j => StrLess(ks[i], ks[j])

\* the value the mapping holds for k
ValueOf(tags, k) == (CHOOSE e \in PairSet(tags) : e.k = k).v

\* the lines printed after the duration line
AfterDuration == SubSeq(out, 4, Len(out))

\* the dicts that hold the same pairs as tags, in any insertion order
Reorderings(tags) ==
    {d \in [1..Len(tags) -> PairSet(tags)] : PairSet(d) = PairSet(tags)}

\* C6: for a non-empty tag mapping main prints the header, then exactly one
\* "key: value" line per key, the keys strictly ascending by code point, none
\* repeated or left out; a mapping holding the same pairs in another
\* insertion order gives the same lines; for an empty mapping the
\* no-metadata notice alone is printed, and no header.
C6_SortedListing ==
    (Done /\ md.state = "ok") =>
        IF md.tags # <<>>
        THEN LET ks == Ascending(KeySet(md.tags))
             IN  /\ Len(AfterDuration) = 1 + Cardinality(KeySet(md.tags))
                 /\ AfterDuration[1] = Line("MetadataHeader", <<>>, "")
                 /\ \A i \in 1..Len(ks) :
                       AfterDuration[i + 1] =
                           Line("Tag", TagText(ks[i], ValueOf(md.tags, ks[i])), "")
                 /\ \A d \in Reorderings(md.tags) :
                       PresentOutcome(MdOk(d)).print = AfterDuration
                 /\ ~Printed("NoMetadata")
        ELSE /\ AfterDuration = <<Line("NoMetadata", <<>>, "")>>
             /\ ~Printed("MetadataHeader")
             /\ ~Printed("Tag")

\* a listing of two tags whose dict order is not the sorted order
C6_Witness ==
    /\ Done /\ md.state = "ok"
    /\ Len(md.tags) >= 2
    /\ StrLess(md.tags[2].k, md.tags[1].k)
    /\ Printed("Tag")

\* C7: is_supported_media returns a boolean, TRUE exactly when the final
\* extension of the path, lower-cased and without its dot, is mp3 or wav; no
\* extension (".mp3", "a.") gives FALSE, ".MP3" and ".Wav" give TRUE.
C7_Classifier ==
    pc = "classified" =>
        /\ supported \in BOOLEAN
        /\ supported = HasExtensionIn(path, {<<"m", "p", "3">>, <<"w", "a", "v">>})
        /\ path = <<".", "m", "p", "3">> => ~supported
        /\ path = <<"a", ".">> => ~supported
        /\ path = <<"a">> => ~supported
        /\ path = <<"a", ".", "M", "P", "3">> => supported
        /\ path = <<"a", ".", "W", "a", "v">> => supported

\* an upper-case extension was classified as supported
C7_Witness ==
    /\ pc = "classified"
    /\ path = <<"/", "a", ".", "M", "P", "3">>
    /\ supported

\* the view gave at least one entry
Yields(view) == view.kind = "file" /\ ~view.broken /\ view.tags # <<>>

ViewRaised(view) == view.kind = "raises"

\* the mapping holds one entry per item of the view, and the joined elements
\* for the items whose kind is in `joined`, the string form for plain
\* strings and frames without a text list
BuiltFrom(tags, view, joined) ==
    /\ KeySet(tags) = KeySet(ItemsOf(view))
    /\ Len(tags) = Len(ItemsOf(view))
    /\ \A i \in 1..Len(ItemsOf(view)) :
          LET it == ItemsOf(view)[i]
          IN  /\ it.v.kind \in joined =>
                    ValueOf(tags, it.k) = Join(CommaSpace, it.v.items)
              /\ it.v.kind \in {"str", "frame"} \ joined =>
                    ValueOf(tags, it.k) = it.v.str

\* C8: get_metadata reads the simplified view first; when it gives an entry
\* the raw view is never opened and the result is built from the simplified
\* view alone; the raw view is opened exactly when the simplified view was
\* read and gave no entry, and the result is then built from the raw view
\* alone, from the text list of the frames that carry one; the result is
\* empty only when neither view gave an entry.
C8_SimplifiedThenRaw ==
    (md.state # "none" /\ MutagenFile) =>
        /\ easyView # Unopened
        /\ Called("MutagenFile.easy")
        /\ Yields(easyView) =>
              /\ rawView = Unopened
              /\ ~Called("MutagenFile.full")
              /\ md.state = "ok"
              /\ BuiltFrom(md.tags, easyView, {"list"})
        /\ rawView # Unopened <=>
              (~ViewRaised(easyView) /\ ~easyView.broken /\ ~Yields(easyView))
        /\ rawView # Unopened <=> Called("MutagenFile.full")
        /\ (rawView # Unopened /\ md.state = "ok") =>
              BuiltFrom(md.tags, rawView, {"frame_text"})
        /\ (md.state = "ok" /\ md.tags = <<>>) =>
              (~Yields(easyView) /\ ~Yields(rawView))
        /\ CountCalls("MutagenFile.easy") = 1
        /\ CountCalls("MutagenFile.full") <= 1

\* the raw view was opened and gave a frame that carries a text list
C8_Witness ==
    /\ md.state = "ok"
    /\ rawView.kind = "file"
    /\ \E i \in 1..Len(rawView.tags) : rawView.tags[i].v.kind = "frame_text"
    /\ md.tags # <<>>

\* the run reported a metadata-read failure and nothing else about the tags
FailureSurfaced ==
    /\ exitCode = Exit(0)
    /\ Wording = <<"File", "Format", "Duration", "MetadataError">>

\* C9 as stated: every exception of the tag reader, wherever in the metadata
\* stage it is raised, ends the run with the metadata-failure message, no
\* listing, no no-metadata notice, and exit code 0.
C9_EveryExceptionSurfaced ==
    (Done /\ TagReaderRaised) => FailureSurfaced

\* C9 amended: an exception raised while the simplified or the raw view is
\* opened, or while the items of the simplified view are enumerated, ends
\* the run with the metadata-failure message and exit code 0; an exception
\* raised while the items of the raw view are enumerated is swallowed, the
\* raw view counts as empty, and the run prints the no-metadata notice and
\* no failure message, and exits 0.
C9_SurfacedUnlessRawItems ==
    /\ (Done /\ (ViewRaised(easyView) \/ easyView.broken \/ ViewRaised(rawView)))
          => FailureSurfaced
    /\ (Done /\ rawView.broken) =>
          /\ exitCode = Exit(0)
          /\ md = MdOk(<<>>)
          /\ Wording = <<"File", "Format", "Duration", "NoMetadata">>

\* the items of the raw view raised and main returned
C9_Witness ==
    /\ Done
    /\ rawView.broken

\* C10: with pydub available, whatever exception the decoder raises, main
\* prints the FFmpeg hint and returns 3, the decoder invoked exactly once;
\* with pydub missing the decoder is not invoked and the pydub-missing
\* message is printed.
C10_DecodeFailureHint ==
    (Done /\ Called("get_duration_seconds")) =>
        /\ (AudioSegment /\ decoded.kind \in {"CouldntDecodeError", "OtherException"}) =>
              /\ exitCode = Exit(3)
              /\ LastLine = Line("DurationError", <<>>, "ffmpeg_hint")
              /\ CountCalls("AudioSegment.from_file") = 1
        /\ ~AudioSegment =>
              /\ exitCode = Exit(3)
              /\ ~Called("AudioSegment.from_file")
              /\ LastLine = Line("DurationError", <<>>, "pydub_missing")

====
